---- MODULE Spec2Model ----
(***************************************************************************)
(* A model of floss/identification_manager.py: the IdentificationManager   *)
(* object (candidate store, merger, weighted scorer, ranker) and the       *)
(* identify_decoding_functions pipeline that drives it.                    *)
(*                                                                         *)
(* Representation.                                                         *)
(*  - A Python dict is an insertion-ordered sequence of <<key, value>>     *)
(*    pairs with distinct keys (iteration order is observable through the  *)
(*    stable sort of sort_candidates_by_score).  A candidate entry (the    *)
(*    inner dict plugin name -> metric) is a TLA+ function: its iteration  *)
(*    order only fixes the order of a sum.                                 *)
(*  - Floats are fixed point.  A weight w is the integer 1000*w, a metric  *)
(*    is an integer, a weighted score s is the integer 1000*s.  Sums and   *)
(*    products are exact (no rounding).                                    *)
(*  - None is a record with isNone = TRUE.                                 *)
(***************************************************************************)
EXTENDS Integers, Sequences, FiniteSets, TLC

\* ------------------------------------------------------------------ bounds
\* The function addresses of the analysed binary.
Addrs == {1, 2}
\* Metrics are 0..MaxMetric; a normalized metric is 0 or 1.
MaxMetric == 1
\* Calls of merge_candidates on one manager.
MaxMerges == 2
\* The n of get_top_candidate_functions ranges over -MaxCount..MaxCount.
MaxCount == 2

\* Calls of merge_candidates before the two merge orders are compared.
MaxBuild == 1
\* Length of the plugin list of a pipeline run.
MaxPlugins == 2
\* Plugins in the entry of the function scored under SpecWeights.
MaxEntry == 4

Metrics == 0..MaxMetric
Counts == (0 - MaxCount)..MaxCount

\* ------------------------------------------------------- the weight table
\* A table whose thunk penalty lost a digit.
PLUGIN_WEIGHTS_weak_thunk ==
    [ XORPlugin |-> 500,
      ShiftPlugin |-> 500,
      MovPlugin |-> 300,
      FunctionCrossReferencesToPlugin |-> 200,
      FunctionArgumentCountPlugin |-> 200,
      FunctionBlockCountPlugin |-> 25,
      FunctionInstructionCountPlugin |-> 25,
      FunctionSizePlugin |-> 25,
      FunctionRecursivePlugin |-> 25,
      FunctionIsThunkPlugin |-> 0 - 100,
      FunctionIsLibraryPlugin |-> 0 - 1000 ]

PLUGIN_WEIGHTS ==
    [ XORPlugin |-> 500,
      ShiftPlugin |-> 500,
      MovPlugin |-> 300,
      FunctionCrossReferencesToPlugin |-> 200,
      FunctionArgumentCountPlugin |-> 200,
      FunctionBlockCountPlugin |-> 25,
      FunctionInstructionCountPlugin |-> 25,
      FunctionSizePlugin |-> 25,
      FunctionRecursivePlugin |-> 25,
      FunctionIsThunkPlugin |-> 0 - 1000,
      FunctionIsLibraryPlugin |-> 0 - 1000 ]

\* The plugin identities the callers of the model pass to merge_candidates:
\* two with a weight (one positive, one negative) and one without.
Identities == {"XORPlugin", "FunctionIsThunkPlugin", "CustomPlugin"}

\* ------------------------------------------------------------ Python dicts
Keys(d) == {d[i][1] : i \in 1..Len(d)}
Index(d, k) == CHOOSE i \in 1..Len(d) : d[i][1] = k
Get(d, k) == d[Index(d, k)][2]
\* d[k] = v
DictSet(d, k, v) ==
    IF k \in Keys(d) THEN [d EXCEPT ![Index(d, k)] = <<k, v>>]
    ELSE Append(d, <<k, v>>)
\* dict equality ignores insertion order
ToMap(d) == [k \in Keys(d) |-> Get(d, k)]

EmptyEntry == [p \in {} |-> 0]
EntrySet(e, p, v) == [q \in (DOMAIN e) \cup {p} |-> IF q = p THEN v ELSE e[q]]

None == [isNone |-> TRUE, d |-> <<>>]
Some(d) == [isNone |-> FALSE, d |-> d]

\* All ordered dicts with keys in S and values in V (no key twice).
RECURSIVE Dicts(_, _)
Dicts(S, V) ==
    {<<>>} \cup UNION {{<<<<k, v>>>> \o t : t \in Dicts(S \ {k}, V)} : k \in S, v \in V}

\* What a plugin hands to merge_candidates: None, the empty dict, or a dict
\* giving one metric to the addresses it reports, in any order.  (Stores whose
\* metrics differ between addresses come from several merges.)
Results ==
    {None} \cup {Some(d) : d \in {<<>>} \cup UNION {Dicts(Addrs, {m}) : m \in Metrics}}

\* ------------------------------------------------- IdentificationManager
VARIABLES
    candidate_functions,   \* self.candidate_functions: address -> entry
    candidates_weighted,   \* self.candidates_weighted: None or address -> score
    op,                    \* the last call on the manager and its outcome
    written,               \* history: <<address, plugin>> -> metric last written
    stale,                 \* history: keys not reported again by a later merge
    ncalls,                \* number of merge_candidates calls made so far
    other_functions,       \* the store of a second manager (order comparison)
    phase,                 \* position of the order comparison
    plugins,               \* run_plugins: the plugin list (identities)
    raw_data,              \* run_plugins: the raw_data flag
    count,                 \* identify_decoding_functions: count
    pc,                    \* position of the pipeline
    idx,                   \* index of the plugin being run
    decoder_candidates,    \* output of the current plugin's identify
    scored_candidates,     \* output of the current plugin's score
    score_arg,             \* the argument of the current plugin's score
    log,                   \* history: the calls made by the pipeline, in order
    error,                 \* the exception that reached the caller, if any
    result                 \* the value returned to the caller, if any

mgr_vars == <<candidate_functions, candidates_weighted, op, written, stale, ncalls>>
cmp_vars == <<other_functions, phase>>
run_vars == <<plugins, raw_data, count, pc, idx, decoder_candidates,
              scored_candidates, score_arg, log, error, result>>
vars == <<mgr_vars, cmp_vars, run_vars>>

\* A merge that replaces the entry of an address instead of setting one key.
merge_one_replacing(cf, plugin_name, candidate_function, metric) ==
    DictSet(cf, candidate_function, EntrySet(EmptyEntry, plugin_name, metric))

\* One iteration of the loop of merge_candidates.
merge_one(cf, plugin_name, candidate_function, metric) ==
    IF candidate_function \in Keys(cf)
    THEN DictSet(cf, candidate_function,
                 EntrySet(Get(cf, candidate_function), plugin_name, metric))
    ELSE DictSet(DictSet(cf, candidate_function, EmptyEntry), candidate_function,
                 EntrySet(EmptyEntry, plugin_name, metric))

RECURSIVE merge_loop(_, _, _, _)
merge_loop(cf, plugin_name, d, i) ==
    IF i > Len(d) THEN cf
    ELSE merge_loop(merge_one(cf, plugin_name, d[i][1], d[i][2]), plugin_name, d, i + 1)

\* A merge that first retracts what the plugin reported before.
merge_candidates_retracting(cf, plugin_name, plugin_candidates) ==
    LET strip(e) == [q \in (DOMAIN e) \ {plugin_name} |-> e[q]]
        stripped == [i \in 1..Len(cf) |-> <<cf[i][1], strip(cf[i][2])>>]
    IN  IF plugin_candidates.isNone \/ plugin_candidates.d = <<>> THEN cf
        ELSE merge_loop(stripped, plugin_name, plugin_candidates.d, 1)

\* merge_candidates: the store after the call.  "not plugin_candidates" is
\* true of None and of the empty dict.
merge_candidates(cf, plugin_name, plugin_candidates) ==
    IF plugin_candidates.isNone \/ plugin_candidates.d = <<>> THEN cf
    ELSE merge_loop(cf, plugin_name, plugin_candidates.d, 1)

\* A sum that adds the scores without their weights.
RECURSIVE total_score_unweighted(_)
total_score_unweighted(plugin_score) ==
    IF DOMAIN plugin_score = {} THEN 0
    ELSE LET plugin_name == CHOOSE p \in DOMAIN plugin_score : TRUE
             rest == [q \in (DOMAIN plugin_score) \ {plugin_name} |-> plugin_score[q]]
         IN  plugin_score[plugin_name] + total_score_unweighted(rest)

\* The inner loop of apply_plugin_weights: the sum of weight * score.
RECURSIVE total_score(_)
total_score(plugin_score) ==
    IF DOMAIN plugin_score = {} THEN 0
    ELSE LET plugin_name == CHOOSE p \in DOMAIN plugin_score : TRUE
             rest == [q \in (DOMAIN plugin_score) \ {plugin_name} |-> plugin_score[q]]
         IN  PLUGIN_WEIGHTS[plugin_name] * plugin_score[plugin_name] + total_score(rest)

\* apply_plugin_weights raises "Plugin weight not found" on the first plugin
\* name it meets that has no weight.
weight_not_found(cf) ==
    \E i \in 1..Len(cf) : \E p \in DOMAIN cf[i][2] : p \notin DOMAIN PLUGIN_WEIGHTS

\* functions_weighted at line 86: one item per store item, in store order.
functions_weighted(cf) == [i \in 1..Len(cf) |-> <<cf[i][1], total_score(cf[i][2])>>]

\* An apply_plugin_weights that fills candidates_weighted as it goes, so a
\* failing call leaves the scores computed before the failure.
apply_plugin_weights_partial(cf, cw) ==
    IF weight_not_found(cf)
    THEN LET bad == CHOOSE i \in 1..Len(cf) :
                        /\ ~(DOMAIN cf[i][2] \subseteq DOMAIN PLUGIN_WEIGHTS)
                        /\ \A j \in 1..(i - 1) : DOMAIN cf[j][2] \subseteq DOMAIN PLUGIN_WEIGHTS
         IN  Some([i \in 1..(bad - 1) |-> <<cf[i][1], total_score(cf[i][2])>>])
    ELSE Some([i \in 1..Len(cf) |-> <<cf[i][1], total_score(cf[i][2])>>])

\* apply_plugin_weights: the new value of candidates_weighted.
apply_plugin_weights(cf, cw) ==
    IF weight_not_found(cf) THEN cw ELSE Some(functions_weighted(cf))

\* A sort without reverse=True.
sorted_insert_ascending(s, x) ==
    LET k == Cardinality({i \in 1..Len(s) : s[i][2] <= x[2]})
    IN  SubSeq(s, 1, k) \o <<x>> \o SubSeq(s, k + 1, Len(s))

\* sorted(items, key=itemgetter(1), reverse=True): a stable sort, so items of
\* equal score keep their dict order.
sorted_insert(s, x) ==
    LET k == Cardinality({i \in 1..Len(s) : s[i][2] >= x[2]})
    IN  SubSeq(s, 1, k) \o <<x>> \o SubSeq(s, k + 1, Len(s))

RECURSIVE sorted_prefix(_, _)
sorted_prefix(items, i) ==
    IF i = 0 THEN <<>> ELSE sorted_insert(sorted_prefix(items, i - 1), items[i])

sort_candidates_by_score(cw) == sorted_prefix(cw.d, Len(cw.d))

\* s[:n]
slice_to(s, n) ==
    LET stop == IF n < 0 THEN (IF Len(s) + n < 0 THEN 0 ELSE Len(s) + n)
                ELSE (IF n > Len(s) THEN Len(s) ELSE n)
    IN  SubSeq(s, 1, stop)

get_top_candidate_functions(cw, n) == slice_to(sort_candidates_by_score(cw), n)

\* ---------------------------------------------------------------- calls
NoOp == [name |-> "new", plugin |-> "", arg |-> None, n |-> 0, raised |-> FALSE, ret |-> <<>>]

\* History of a merge: the metric last written under each <<address, plugin>>
\* key, and the keys a later merge of the same plugin did not report again.
WrittenBy(plugin_name, plugin_candidates) ==
    IF plugin_candidates.isNone THEN {}
    ELSE {<<k, plugin_name>> : k \in Keys(plugin_candidates.d)}

WriteAll(w, plugin_name, plugin_candidates) ==
    [key \in (DOMAIN w) \cup WrittenBy(plugin_name, plugin_candidates) |->
        IF key \in WrittenBy(plugin_name, plugin_candidates)
        THEN Get(plugin_candidates.d, key[1]) ELSE w[key]]

\* __init__
InitManager ==
    /\ candidate_functions = <<>>
    /\ candidates_weighted = None
    /\ op = NoOp
    /\ written = <<>>
    /\ stale = {}
    /\ ncalls = 0

\* manager.merge_candidates(plugin_name, plugin_candidates)
DoMerge(plugin_name, plugin_candidates) ==
    /\ candidate_functions' = merge_candidates(candidate_functions, plugin_name, plugin_candidates)
    /\ written' = WriteAll(written, plugin_name, plugin_candidates)
    /\ stale' = (stale \cup {key \in DOMAIN written : key[2] = plugin_name})
                    \ WrittenBy(plugin_name, plugin_candidates)
    /\ op' = [NoOp EXCEPT !.name = "merge", !.plugin = plugin_name, !.arg = plugin_candidates]
    /\ ncalls' = ncalls + 1
    /\ UNCHANGED candidates_weighted

\* a caller's manager.merge_candidates(plugin_name, plugin_candidates)
MergeCall(plugin_name, plugin_candidates) ==
    /\ ncalls < MaxMerges
    /\ DoMerge(plugin_name, plugin_candidates)

\* a call manager.apply_plugin_weights()
ApplyCall ==
    /\ candidates_weighted' = apply_plugin_weights(candidate_functions, candidates_weighted)
    /\ op' = [NoOp EXCEPT !.name = "apply", !.raised = weight_not_found(candidate_functions)]
    /\ UNCHANGED <<candidate_functions, written, stale, ncalls>>

\* a call manager.get_top_candidate_functions(n); with candidates_weighted
\* still None, None.items() raises AttributeError.
TopCall(n) ==
    /\ op' = IF candidates_weighted.isNone
             THEN [NoOp EXCEPT !.name = "top", !.n = n, !.raised = TRUE]
             ELSE [NoOp EXCEPT !.name = "top", !.n = n,
                               !.ret = get_top_candidate_functions(candidates_weighted, n)]
    /\ UNCHANGED <<candidate_functions, candidates_weighted, written, stale, ncalls>>

\* The pipeline and the second manager are not part of this specification.
NoCompare ==
    /\ other_functions = <<>>
    /\ phase = [at |-> "off", overlap |-> FALSE, fresh |-> FALSE]

NoRun ==
    /\ plugins = <<>>
    /\ raw_data = FALSE
    /\ count = 0
    /\ pc = "idle"
    /\ idx = 0
    /\ decoder_candidates = None
    /\ scored_candidates = None
    /\ score_arg = None
    /\ log = <<>>
    /\ error = ""
    /\ result = None

Init ==
    /\ InitManager
    /\ NoCompare
    /\ NoRun

Next ==
    \/ \E p \in Identities, r \in Results : MergeCall(p, r) /\ UNCHANGED <<cmp_vars, run_vars>>
    \/ ApplyCall /\ UNCHANGED <<cmp_vars, run_vars>>
    \/ \E n \in Counts : TopCall(n) /\ UNCHANGED <<cmp_vars, run_vars>>

Spec == Init /\ [][Next]_vars

\* ------------------------------------------- two managers, two orders
\* Two managers receive the same merges; then the first merges A's results
\* and B's results in that order, the second B's and then A's.
InitOrder ==
    /\ InitManager
    /\ other_functions = <<>>
    /\ phase = [at |-> "build", overlap |-> FALSE, fresh |-> FALSE]
    /\ NoRun

BuildCall(plugin_name, plugin_candidates) ==
    /\ phase.at = "build"
    /\ ncalls < MaxBuild
    /\ DoMerge(plugin_name, plugin_candidates)
    /\ other_functions' = merge_candidates(other_functions, plugin_name, plugin_candidates)
    /\ UNCHANGED <<phase, run_vars>>

OrderCall(A, rA, B, rB) ==
    /\ phase.at = "build"
    /\ A # B
    /\ candidate_functions' =
           merge_candidates(merge_candidates(candidate_functions, A, rA), B, rB)
    /\ other_functions' =
           merge_candidates(merge_candidates(other_functions, B, rB), A, rA)
    /\ written' = WriteAll(WriteAll(written, A, rA), B, rB)
    /\ stale' = ((stale \cup {key \in DOMAIN written : key[2] \in {A, B}})
                     \ WrittenBy(A, rA)) \ WrittenBy(B, rB)
    /\ op' = [NoOp EXCEPT !.name = "merge", !.plugin = B, !.arg = rB]
    /\ ncalls' = ncalls + 2
    /\ phase' = [at |-> "compared",
                 overlap |-> Keys(rA.d) \cap Keys(rB.d) # {},
                 fresh |-> (Keys(rA.d) \cup Keys(rB.d)) \ Keys(candidate_functions) # {}]
    /\ UNCHANGED <<candidates_weighted, run_vars>>

\* Each unordered pair of identities once, in one fixed order.
IdentityPairs ==
    {pair \in Identities \X Identities :
        pair[1] # pair[2] /\ pair[1] = (CHOOSE x \in {pair[1], pair[2]} : TRUE)}

NextOrder ==
    \/ \E p \in Identities, r \in Results : BuildCall(p, r)
    \/ \E pair \in IdentityPairs, rA \in Results, rB \in Results :
           OrderCall(pair[1], rA, pair[2], rB)

SpecOrder == InitOrder /\ [][NextOrder]_vars

\* ------------------------------------------------------- the pipeline
\* A plugin is an object with a class name, identify and score.
Plugin(name) == [identity |-> name]
str(plugin) == plugin.identity

\* The list get_all_plugins() returns.
get_all_plugins ==
    << Plugin("FunctionCrossReferencesToPlugin"), Plugin("FunctionArgumentCountPlugin"),
       Plugin("FunctionIsThunkPlugin"), Plugin("FunctionBlockCountPlugin"),
       Plugin("FunctionInstructionCountPlugin"), Plugin("FunctionSizePlugin"),
       Plugin("FunctionRecursivePlugin"), Plugin("FunctionIsLibraryPlugin"),
       Plugin("XORPlugin"), Plugin("ShiftPlugin"), Plugin("MovPlugin") >>

\* The plugin lists of the runs: every list of at most MaxPlugins plugins, one
\* registered with a weight (as in get_all_plugins) and one without.
RunIdentities == {"XORPlugin", "CustomPlugin"}
PluginLists ==
    UNION {[1..n -> {Plugin(name) : name \in RunIdentities}] : n \in 0..MaxPlugins}

\* What identify may return: any of Results.  What score may return for it:
\* the same functions with one metric.
IdentifyOutputs == Results
ScoreOutputs(dc) ==
    {Some([i \in 1..Len(dc.d) |-> <<dc.d[i][1], m>>]) : m \in Metrics}
Exceptions == {"ValueError", "KeyError"}
WeightError == "Plugin weight not found"

\* The control flow of identify_decoding_functions with run_plugins inlined:
\* where the pipeline goes after the call `at`; an exception is caught nowhere.
run_next_swallowing(at, raised, raw, last) ==
    IF raised /\ at \in {"apply", "top"} THEN "raised"
    ELSE CASE at \in {"identify", "score"} -> IF raw \/ raised \/ at = "score" THEN "merge" ELSE "score"
           [] at = "merge" -> IF last THEN "apply" ELSE "identify"
           [] at = "apply" -> "top"
           [] OTHER -> "returned"

run_next(at, raised, raw, last) ==
    IF raised THEN "raised"
    ELSE CASE at = "identify" -> IF raw THEN "merge" ELSE "score"
           [] at = "score" -> "merge"
           [] at = "merge" -> IF last THEN "apply" ELSE "identify"
           [] at = "apply" -> "top"
           [] OTHER -> "returned"

\* A run_plugins that always merges the identify output.
merge_argument_raw(raw, dc, sc) == dc

\* What run_plugins hands to merge_candidates.
merge_argument(raw, dc, sc) == IF raw THEN dc ELSE sc

Event(call, i, exc) == [call |-> call, plugin |-> i, exc |-> exc]

InitRun ==
    /\ InitManager
    /\ NoCompare
    /\ plugins \in PluginLists
    /\ raw_data \in BOOLEAN
    /\ count \in Counts
    /\ pc = IF plugins = <<>> THEN "apply" ELSE "identify"
    /\ idx = 1
    /\ decoder_candidates = None
    /\ scored_candidates = None
    /\ score_arg = None
    /\ log = <<>>
    /\ error = ""
    /\ result = None

\* decoder_candidates = plugin.identify(self.vw, functions)
IdentifyStep ==
    /\ pc = "identify"
    /\ \/ \E out \in IdentifyOutputs :
             /\ decoder_candidates' = out
             /\ log' = Append(log, Event("identify", idx, ""))
             /\ pc' = run_next("identify", FALSE, raw_data, idx = Len(plugins))
             /\ UNCHANGED error
       \/ \E e \in Exceptions :
             /\ log' = Append(log, Event("identify", idx, e))
             /\ pc' = run_next("identify", TRUE, raw_data, idx = Len(plugins))
             /\ error' = IF pc' = "raised" THEN e ELSE error
             /\ UNCHANGED decoder_candidates
    /\ UNCHANGED <<mgr_vars, cmp_vars, plugins, raw_data, count, idx,
                   scored_candidates, score_arg, result>>

\* scored_candidates = plugin.score(decoder_candidates, self.vw)
ScoreStep ==
    /\ pc = "score"
    /\ score_arg' = decoder_candidates
    /\ \/ \E out \in ScoreOutputs(decoder_candidates) :
             /\ scored_candidates' = out
             /\ log' = Append(log, Event("score", idx, ""))
             /\ pc' = run_next("score", FALSE, raw_data, idx = Len(plugins))
             /\ UNCHANGED error
       \/ \E e \in Exceptions :
             /\ log' = Append(log, Event("score", idx, e))
             /\ pc' = run_next("score", TRUE, raw_data, idx = Len(plugins))
             /\ error' = IF pc' = "raised" THEN e ELSE error
             /\ UNCHANGED scored_candidates
    /\ UNCHANGED <<mgr_vars, cmp_vars, plugins, raw_data, count, idx,
                   decoder_candidates, result>>

\* self.merge_candidates(str(plugin), ...), then the next plugin of the loop
MergeStep ==
    /\ pc = "merge"
    /\ DoMerge(str(plugins[idx]),
               merge_argument(raw_data, decoder_candidates, scored_candidates))
    /\ log' = Append(log, Event("merge", idx, ""))
    /\ pc' = run_next("merge", FALSE, raw_data, idx = Len(plugins))
    /\ idx' = IF idx = Len(plugins) THEN idx ELSE idx + 1
    /\ UNCHANGED <<cmp_vars, plugins, raw_data, count, decoder_candidates,
                   scored_candidates, score_arg, error, result>>

\* identification_manager.apply_plugin_weights()
ApplyStep ==
    /\ pc = "apply"
    /\ ApplyCall
    /\ log' = Append(log, Event("apply", 0,
                  IF weight_not_found(candidate_functions) THEN WeightError ELSE ""))
    /\ pc' = run_next("apply", weight_not_found(candidate_functions), raw_data, TRUE)
    /\ error' = IF pc' = "raised" THEN WeightError ELSE error
    /\ UNCHANGED <<cmp_vars, plugins, raw_data, count, idx, decoder_candidates,
                   scored_candidates, score_arg, result>>

\* return identification_manager.get_top_candidate_functions(count)
TopStep ==
    /\ pc = "top"
    /\ TopCall(count)
    /\ log' = Append(log, Event("top", 0, ""))
    /\ pc' = run_next("top", candidates_weighted.isNone, raw_data, TRUE)
    /\ result' = IF candidates_weighted.isNone THEN result
                 ELSE Some(get_top_candidate_functions(candidates_weighted, count))
    /\ error' = IF pc' = "raised" THEN "AttributeError" ELSE error
    /\ UNCHANGED <<cmp_vars, plugins, raw_data, count, idx, decoder_candidates,
                   scored_candidates, score_arg>>

NextRun ==
    \/ IdentifyStep
    \/ ScoreStep
    \/ MergeStep
    \/ ApplyStep
    \/ TopStep

SpecRun == InitRun /\ [][NextRun]_vars

\* ------------------------------------------- scoring one function's entry
\* The entries a run of get_all_plugins() can leave for a function: metrics of
\* at most MaxEntry of its plugins.
PipelineIdentities == {str(get_all_plugins[i]) : i \in 1..Len(get_all_plugins)}
Entries ==
    UNION {[S -> Metrics] : S \in {T \in SUBSET PipelineIdentities :
                                       T # {} /\ Cardinality(T) <= MaxEntry}}

ScoredFunction == CHOOSE f \in Addrs : TRUE

InitWeights ==
    /\ \E e \in Entries :
          /\ candidate_functions = <<<<ScoredFunction, e>>>>
          /\ written = [key \in {<<ScoredFunction, p>> : p \in DOMAIN e} |-> e[key[2]]]
    /\ candidates_weighted = None
    /\ op = NoOp
    /\ stale = {}
    /\ ncalls = 0
    /\ NoCompare
    /\ NoRun

NextWeights == ApplyCall /\ UNCHANGED <<cmp_vars, run_vars>>

SpecWeights == InitWeights /\ [][NextWeights]_vars

\* ------------------------------------------------------------ the claims
Min(a, b) == IF a < b THEN a ELSE b
IsSuccessfulApply == op.name = "apply" /\ ~op.raised
AllWeighted(cf) == \A i \in 1..Len(cf) : DOMAIN cf[i][2] \subseteq DOMAIN PLUGIN_WEIGHTS

\* The sum of PLUGIN_WEIGHTS[p] * e[p] over the weighted plugins p of S that
\* are present in the entry e.
RECURSIVE WeightedSum(_, _)
WeightedSum(S, e) ==
    IF S = {} THEN 0
    ELSE LET p == CHOOSE q \in S : TRUE
         IN  (IF p \in DOMAIN e THEN PLUGIN_WEIGHTS[p] * e[p] ELSE 0) + WeightedSum(S \ {p}, e)

\* C1: after a successful apply_plugin_weights on a store whose plugin
\* identities all have a weight, the score mapping has exactly the addresses
\* of the store as keys (each of them merged by some plugin), and the score of
\* an address is the sum of weight * metric over the plugins present in its
\* entry, a plugin absent from the entry adding nothing.
C1_WeightedScoreFormula ==
    (IsSuccessfulApply /\ AllWeighted(candidate_functions)) =>
        /\ ~candidates_weighted.isNone
        /\ Len(candidates_weighted.d) = Len(candidate_functions)
        /\ Keys(candidates_weighted.d) = Keys(candidate_functions)
        /\ Keys(candidates_weighted.d) = {key[1] : key \in DOMAIN written}
        /\ \A f \in Keys(candidate_functions) :
              Get(candidates_weighted.d, f) =
                  WeightedSum(DOMAIN PLUGIN_WEIGHTS, Get(candidate_functions, f))

\* C1 witness: a successful apply on a store where one function has both
\* weighted plugins, the other only one of them, with a metric of 0 present.
C1_Witness ==
    /\ IsSuccessfulApply
    /\ Len(candidate_functions) = 2
    /\ \E f \in Keys(candidate_functions) : Cardinality(DOMAIN Get(candidate_functions, f)) = 2
    /\ \E f \in Keys(candidate_functions) : Cardinality(DOMAIN Get(candidate_functions, f)) = 1
    /\ \E f \in Keys(candidate_functions) : Get(candidates_weighted.d, f) < 0
    /\ \E f \in Keys(candidate_functions) : Get(candidates_weighted.d, f) > 0

\* C2 as claimed: an apply_plugin_weights call on a store holding a plugin
\* identity without a weight raises, and afterwards no weighted score is
\* available for any function.
C2_NoScoresAfterFailure ==
    (op.name = "apply" /\ weight_not_found(candidate_functions)) =>
        /\ op.raised
        /\ (candidates_weighted.isNone \/ candidates_weighted.d = <<>>)

\* C2 as amended: such a call raises and leaves candidates_weighted (and the
\* store) exactly as they were before the call, so the scores of an earlier
\* successful call stay exposed and no score of the failing call is.
C2_FailedApplyKeepsOldScores ==
    [][(op'.name = "apply" /\ weight_not_found(candidate_functions)) =>
          /\ op'.raised
          /\ candidates_weighted' = candidates_weighted
          /\ candidate_functions' = candidate_functions]_vars

\* C2 witness: a failed apply after which the scores of an earlier apply are
\* still exposed.
C2_Witness ==
    /\ op.name = "apply"
    /\ op.raised
    /\ ~candidates_weighted.isNone
    /\ candidates_weighted.d # <<>>

NonIncreasing(s) == \A i \in 1..Len(s) : \A j \in i..Len(s) : s[i][2] >= s[j][2]
SameItems(s, t) ==
    /\ Len(s) = Len(t)
    /\ Keys(s) = Keys(t)
    /\ \A k \in Keys(s) : Get(s, k) = Get(t, k)

\* C3: for a computed score mapping and n >= 0, get_top_candidate_functions(n)
\* returns without error exactly min(n, |scores|) pairs, in non-increasing
\* score order, the first min(n, |scores|) elements of
\* sort_candidates_by_score(), which holds every pair of the mapping once.
C3_TopN ==
    (op.name = "top" /\ ~candidates_weighted.isNone /\ op.n >= 0) =>
        LET all == sort_candidates_by_score(candidates_weighted)
            k == Min(op.n, Len(candidates_weighted.d))
        IN  /\ ~op.raised
            /\ Len(op.ret) = k
            /\ NonIncreasing(op.ret)
            /\ NonIncreasing(all)
            /\ SameItems(all, candidates_weighted.d)
            /\ op.ret = SubSeq(all, 1, k)
            /\ (op.n = 0 => op.ret = <<>>)

\* C3 witness: the top 1 of two scores stored in increasing order.
C3_Witness ==
    /\ op.name = "top"
    /\ op.n = 1
    /\ ~op.raised
    /\ Len(candidates_weighted.d) = 2
    /\ candidates_weighted.d[1][2] < candidates_weighted.d[2][2]
    /\ op.ret = <<candidates_weighted.d[2]>>

\* C4: for a count < 0, get_top_candidate_functions fails or returns the empty
\* sequence, never a non-empty ranked result.
C4_NegativeCountRejected ==
    (op.name = "top" /\ op.n < 0) => (op.raised \/ op.ret = <<>>)

\* C6: merge_candidates(P, r) sets the key P of the entry of every address of
\* r to r[address], leaves every other key of those entries and every entry
\* of an address not in r as it was, and with an empty or absent r leaves the
\* whole store unchanged.
C6_MergeFrame ==
    [][(op'.name = "merge" /\ ncalls' = ncalls + 1) =>
          LET P == op'.plugin
              r == op'.arg
              old == ToMap(candidate_functions)
              new == ToMap(candidate_functions')
          IN  IF r.isNone \/ r.d = <<>>
              THEN candidate_functions' = candidate_functions
              ELSE /\ DOMAIN new = (DOMAIN old) \cup Keys(r.d)
                   /\ \A a \in Keys(r.d) :
                        /\ P \in DOMAIN new[a]
                        /\ new[a][P] = Get(r.d, a)
                        /\ (DOMAIN new[a]) \ {P} =
                               (IF a \in DOMAIN old THEN (DOMAIN old[a]) \ {P} ELSE {})
                        /\ \A q \in (DOMAIN new[a]) \ {P} : new[a][q] = old[a][q]
                   /\ \A a \in (DOMAIN old) \ Keys(r.d) : new[a] = old[a]]_vars

\* C6 witness: a merge of P into a store where an address of r already holds
\* another plugin's key and another address is not in r.
C6_Witness ==
    /\ op.name = "merge"
    /\ ~op.arg.isNone
    /\ \E a \in Keys(op.arg.d) : (DOMAIN Get(candidate_functions, a)) \ {op.plugin} # {}
    /\ Keys(candidate_functions) \ Keys(op.arg.d) # {}

WrittenEntry(f) ==
    [p \in {key[2] : key \in {k \in DOMAIN written : k[1] = f}} |-> written[<<f, p>>]]

\* C10: every <<address, plugin>> key ever written is still in the store with
\* the metric last written to it (a later merge of the same plugin that does
\* not report the address leaves it), every entry is non-empty, and after a
\* successful apply_plugin_weights every key ever written contributes
\* weight * metric to the score of its address.
C10_EvidenceNeverRetracted ==
    /\ \A i \in 1..Len(candidate_functions) : DOMAIN candidate_functions[i][2] # {}
    /\ \A key \in DOMAIN written :
          /\ key[1] \in Keys(candidate_functions)
          /\ key[2] \in DOMAIN Get(candidate_functions, key[1])
          /\ Get(candidate_functions, key[1])[key[2]] = written[key]
    /\ IsSuccessfulApply =>
          \A f \in {key[1] : key \in DOMAIN written} :
              /\ f \in Keys(candidates_weighted.d)
              /\ Get(candidates_weighted.d, f) =
                     WeightedSum(DOMAIN PLUGIN_WEIGHTS, WrittenEntry(f))

\* C10 witness: a successful apply on a store holding a key whose plugin was
\* merged again without that address, the key adding a non-zero term.
C10_Witness ==
    /\ IsSuccessfulApply
    /\ \E key \in stale : PLUGIN_WEIGHTS[key[2]] * written[key] # 0

\* C5: from any store, merging A's results and then B's (A # B) leaves the
\* same mapping address -> entry as merging B's results and then A's.
C5_MergeOrderIndependent ==
    phase.at = "compared" => ToMap(candidate_functions) = ToMap(other_functions)

\* C5 witness: both orders applied to a non-empty store, the two results
\* naming a new address and a common one that a third plugin had reported.
C5_Witness ==
    /\ phase.at = "compared"
    /\ phase.overlap
    /\ phase.fresh
    /\ \E f \in Keys(candidate_functions) :
          Cardinality(DOMAIN Get(candidate_functions, f)) = 3

IsPluginCall(ev) == ev.call \in {"identify", "score", "merge"}
PluginCalls == SelectSeq(log, IsPluginCall)
PluginRaised(ev) == ev.call \in {"identify", "score"} /\ ev.exc # ""

\* C7: once the identify or score of a plugin has raised, nothing more is
\* called (no later identify, score or merge, no apply_plugin_weights, no
\* get_top_candidate_functions), that exception is the one the caller gets,
\* and no result is returned.
C7_PluginFailureAborts ==
    \A i \in 1..Len(log) :
        PluginRaised(log[i]) =>
            /\ i = Len(log)
            /\ pc = "raised"
            /\ error = log[i].exc
            /\ result.isNone
            /\ candidates_weighted.isNone
            /\ op.name \notin {"apply", "top"}

\* C7 witness: the score of the first of two plugins has raised.
C7_Witness ==
    /\ Len(plugins) = 2
    /\ log # <<>>
    /\ log[Len(log)].call = "score"
    /\ log[Len(log)].plugin = 1
    /\ log[Len(log)].exc # ""
    /\ pc = "raised"

\* The calls run_plugins makes for plugins i..n when nothing raises.
RECURSIVE ExpectedCalls(_, _, _)
ExpectedCalls(i, n, raw) ==
    IF i > n THEN <<>>
    ELSE (IF raw THEN <<<<"identify", i>>, <<"merge", i>>>>
          ELSE <<<<"identify", i>>, <<"score", i>>, <<"merge", i>>>>)
         \o ExpectedCalls(i + 1, n, raw)

\* C9: the plugin calls are made in list order, for each plugin identify,
\* then score (only when raw_data is false, on the identify output), then the
\* merge under str(plugin), all before the next plugin's identify; the merge
\* gets the identify output when raw_data is true and the score output when
\* it is false; apply_plugin_weights runs only after the last merge.
C9_RunPluginsOrder ==
    LET calls == PluginCalls
        expected == ExpectedCalls(1, Len(plugins), raw_data)
    IN  /\ Len(calls) <= Len(expected)
        /\ \A j \in 1..Len(calls) :
              /\ calls[j].call = expected[j][1]
              /\ calls[j].plugin = expected[j][2]
        /\ (raw_data => scored_candidates = None)
        /\ \A j \in 1..Len(log) :
              /\ (log[j].call = "score" /\ j = Len(log)) => score_arg = decoder_candidates
              /\ log[j].call \in {"apply", "top"} => Len(calls) = Len(expected)
        /\ (log # <<>> /\ log[Len(log)].call = "merge") =>
              /\ op.name = "merge"
              /\ op.plugin = str(plugins[log[Len(log)].plugin])
              /\ op.arg = (IF raw_data THEN decoder_candidates ELSE scored_candidates)

\* C9 witness: with raw_data false the second plugin's merge has just been
\* made with a score output that differs from the identify output.
C9_Witness ==
    /\ ~raw_data
    /\ log # <<>>
    /\ log[Len(log)].call = "merge"
    /\ log[Len(log)].plugin = 2
    /\ scored_candidates # decoder_candidates
    /\ op.arg = scored_candidates
    /\ Len(candidate_functions) = 2

NormalizedEntry(e) == \A p \in DOMAIN e : e[p] \in 0..1
Excluders == {"FunctionIsThunkPlugin", "FunctionIsLibraryPlugin"}
IsExcluded(e) == \E p \in Excluders : p \in DOMAIN e /\ e[p] = 1
PositiveWeights(e) ==
    WeightedSum({p \in DOMAIN PLUGIN_WEIGHTS : PLUGIN_WEIGHTS[p] > 0},
                [p \in DOMAIN e |-> 1])

\* C8 as claimed: with normalized metrics, a function whose thunk or library
\* metric is 1 never gets a positive weighted score.
C8_ExcludedNeverPositive ==
    \A i \in 1..Len(candidate_functions) :
        (IsSuccessfulApply /\ NormalizedEntry(candidate_functions[i][2])
            /\ IsExcluded(candidate_functions[i][2])) =>
            candidates_weighted.d[i][2] <= 0

\* C8 as amended: such a function's score is at most the sum of the positive
\* weights of the plugins present in its entry minus 1.0 (at most 0.8 with the
\* table), so it is not positive when those weights sum to at most 1.0.
C8_ExcludedScoreBound ==
    \A i \in 1..Len(candidate_functions) :
        (IsSuccessfulApply /\ NormalizedEntry(candidate_functions[i][2])
            /\ IsExcluded(candidate_functions[i][2])) =>
            /\ candidates_weighted.d[i][2] <= PositiveWeights(candidate_functions[i][2]) - 1000
            /\ candidates_weighted.d[i][2] <= 800
            /\ (PositiveWeights(candidate_functions[i][2]) <= 1000
                   => candidates_weighted.d[i][2] <= 0)

\* C8 witness: a thunk with normalized metrics scored above 0.
C8_Witness ==
    /\ IsSuccessfulApply
    /\ NormalizedEntry(candidate_functions[1][2])
    /\ "FunctionIsThunkPlugin" \in DOMAIN candidate_functions[1][2]
    /\ candidate_functions[1][2]["FunctionIsThunkPlugin"] = 1
    /\ candidates_weighted.d[1][2] > 0

====
